---- MODULE Spec2Model ----
\* A model of ulmfit/train_clas.py: new_train_clas, the driver that builds or
\* loads the cached vocabulary and token ids of a classification dataset and
\* then hands them to the framework's training calls.
\*
\* One call of new_train_clas is one "run".  The filesystem outlives the runs,
\* everything else is local to a run.  A run may stop at any statement (an
\* exception of a framework call, the process being killed): action Abort.
EXTENDS Integers, Sequences, FiniteSets, TLC

VARIABLES
    corpus,     \* the raw dataset on disk, per split a sequence of [x, y] rows
    dirs,       \* the directories that exist (a path is a sequence of names)
    files,      \* the files that exist: path -> content
    runs,       \* number of calls of new_train_clas started so far
    pc,         \* the statement the current run is at
    args,       \* the arguments of the current run
    err,        \* why the current run aborted ("" while it has not)
    split,      \* index into SplitOrder of the for-loops of lines 81 and 89
    toks,       \* local toks  (line 68)
    lbls,       \* local lbls  (lines 68, 91)
    vocab,      \* local vocab (lines 75, 93)
    ids,        \* local ids   (lines 82, 90)
    bunch,      \* what data_lm / data_clas were built from (lines 98-104)
    learn,      \* local learn: the learner the training calls act on
    trace,      \* the framework training calls of the current run, in order
    nread,      \* calls of read_clas_data in the current run
    written,    \* paths written by the current run
    fs0,        \* dirs and files as they were when the current run started
    built       \* per cache key, what the last completed build branch saved

vars == <<corpus, dirs, files, runs, pc, args, err, split, toks, lbls, vocab,
          ids, bunch, learn, trace, nread, written, fs0, built>>

-----------------------------------------------------------------------------
\* Bounds of the model.

MaxRuns == 2            \* calls of new_train_clas in one behaviour
MaxVocab == 2           \* max_vocab ranges over 0..MaxVocab
MaxLabel == 1           \* class ids range over 0..MaxLabel
MaxTrnToks == 3         \* tokens in the training split (SpecVocab)

-----------------------------------------------------------------------------
\* Names imported from fastai_contrib.utils (line 11).

UNK == "_unk_"
PAD == "_pad_"
TRN == "train"
VAL == "val"
TST == "test"
DATASETS == {"imdb", "xnli"}

\* for split in [TRN, VAL, TST]  (lines 81, 89)
SplitOrder == <<TRN, VAL, TST>>
SplitSet == {TRN, VAL, TST}

Range(s) == {s[i] : i \in DOMAIN s}

-----------------------------------------------------------------------------
\* Python and library operations used by lines 71-93.

\* word for example in toks[TRN] for word in example  (line 71)
RECURSIVE Flatten(_)
Flatten(examples) ==
    IF examples = <<>> THEN <<>>
    ELSE Head(examples) \o Flatten(Tail(examples))

\* The keys of a Counter, in insertion order: each word at its first occurrence.
RECURSIVE FirstOccurrences(_, _)
FirstOccurrences(stream, seen) ==
    IF stream = <<>> THEN <<>>
    ELSE IF Head(stream) \in seen THEN FirstOccurrences(Tail(stream), seen)
    ELSE <<Head(stream)>> \o FirstOccurrences(Tail(stream), seen \cup {Head(stream)})

\* Counter(stream): the items (word, count) in insertion order.
CounterOf(stream) ==
    LET keys == FirstOccurrences(stream, {})
    IN  [i \in DOMAIN keys |->
            [word |-> keys[i],
             count |-> Cardinality({j \in DOMAIN stream : stream[j] = keys[i]})]]

RemoveAt(s, i) == [j \in 1..(Len(s) - 1) |-> IF j < i THEN s[j] ELSE s[j + 1]]

\* PickNext with ties broken the other way: the item inserted last.
PickNextLast(items) ==
    CHOOSE i \in DOMAIN items :
        /\ \A j \in DOMAIN items : items[j].count <= items[i].count
        /\ \A j \in DOMAIN items : items[j].count = items[i].count => j <= i

\* The item most_common takes next: the highest count, and among equal counts
\* the one inserted first (heapq.nlargest is a stable descending sort).
PickNext(items) ==
    CHOOSE i \in DOMAIN items :
        /\ \A j \in DOMAIN items : items[j].count <= items[i].count
        /\ \A j \in DOMAIN items : items[j].count = items[i].count => i <= j

\* Counter.most_common(n)
RECURSIVE MostCommon(_, _)
MostCommon(items, n) ==
    IF n <= 0 \/ items = <<>> THEN <<>>
    ELSE LET i == PickNext(items)
         IN  <<items[i]>> \o MostCommon(RemoveAt(items, i), n - 1)

\* MakeItos counting the words of the validation split as well.
MakeItosAllSplits(t, max_vocab) ==
    LET counter == CounterOf(Flatten(t[TRN] \o t[VAL]))
        common == MostCommon(counter, max_vocab)
        words == [i \in DOMAIN common |-> common[i].word]
    IN  <<UNK, PAD>> \o words

\* Lines 71-74: the itos list.
MakeItos(t, max_vocab) ==
    LET counter == CounterOf(Flatten(t[TRN]))
        common == MostCommon(counter, max_vocab)
        words == [i \in DOMAIN common |-> common[i].word]
    IN  <<UNK, PAD>> \o words

\* The id a word gets in stoi = {v: k for k, v in enumerate(itos)}: ids count
\* from 0, and a word listed twice keeps the later position.
StoiOf(itos, w) ==
    (CHOOSE i \in DOMAIN itos :
        itos[i] = w /\ \A j \in DOMAIN itos : itos[j] = w => j <= i) - 1

\* Vocab(itos)  (line 75)
Vocab(itos) ==
    [itos |-> itos, stoi |-> [w \in Range(itos) |-> StoiOf(itos, w)]]

\* stoi.get(w, stoi[UNK])  (line 82)
Numericalize(stoi, w) == IF w \in DOMAIN stoi THEN stoi[w] ELSE stoi[UNK]

\* EncodeSplit leaving out the words stoi does not have.
RECURSIVE KnownOnly(_, _)
KnownOnly(stoi, text) ==
    IF text = <<>> THEN <<>>
    ELSE IF Head(text) \in DOMAIN stoi
         THEN <<stoi[Head(text)]>> \o KnownOnly(stoi, Tail(text))
         ELSE KnownOnly(stoi, Tail(text))

EncodeSplitKnownOnly(stoi, examples) ==
    [i \in DOMAIN examples |-> KnownOnly(stoi, examples[i])]

\* [[stoi.get(w, stoi[UNK]) for w in s] for s in toks[split]]  (lines 82-83)
EncodeSplit(stoi, examples) ==
    [i \in DOMAIN examples |->
        [j \in DOMAIN examples[i] |-> Numericalize(stoi, examples[i][j])]]

\* np.array(rows): rows of one common length make a 2-d integer array, ragged
\* rows a 1-d array of objects, no rows an empty 1-d array.
NpArray(rows) ==
    [ndim |-> IF rows # <<>> /\ \A i \in DOMAIN rows : Len(rows[i]) = Len(rows[1])
              THEN 2 ELSE 1,
     rows |-> rows]

\* np.array of a list of class ids (np.save converts its argument).
NpVector(values) == [ndim |-> 1, rows |-> values]

-----------------------------------------------------------------------------
\* Paths (sequences of names) and file names.

\* Path.name
PathName(p) == p[Len(p)]

\* dataset_dir = data_dir / dataset  (line 52)
DatasetDir(a) == a.data_dir \o <<a.dataset>>

\* tmp_dir = dataset_dir / 'tmp'  (line 62)
TmpDir(a) == DatasetDir(a) \o <<"tmp">>

\* vocab_file = tmp_dir / f'vocab_{lang}.pkl'  (line 64)
VocabFile(a) == TmpDir(a) \o <<"vocab_" \o a.lang \o ".pkl">>

\* tmp_dir / f'{split}_{lang}_ids.npy'  (lines 66, 84, 90)
IdsFile(a, s) == TmpDir(a) \o <<s \o "_" \o a.lang \o "_ids.npy">>

\* tmp_dir / f'{split}_{lang}_lbl.npy'  (lines 85, 91)
LblFile(a, s) == TmpDir(a) \o <<s \o "_" \o a.lang \o "_lbl.npy">>

\* learn.path / learn.model_dir / 'enc.pth'  (lines 122, 128)
EncFile(a) == a.model_dir \o <<"enc.pth">>

\* model_name = 'qrnn' if qrnn else 'lstm'  (line 60)
ModelName(a) == IF a.qrnn THEN "qrnn" ELSE "lstm"

\* learn.path / learn.model_dir / f'{model_name}_{name}.pth'  (line 138)
ClasFile(a) == a.model_dir \o <<ModelName(a) \o "_" \o a.name \o ".pth">>

\* pretrained_fnames=(f'lstm_{pretrain_name}', f'itos_{pretrain_name}')  (line 113)
PretrainedFiles(a) ==
    {a.model_dir \o <<"lstm_" \o a.pretrain_name \o ".pth">>,
     a.model_dir \o <<"itos_" \o a.pretrain_name \o ".pkl">>}

\* The cached files of one dataset directory and language.
CacheFiles(a) ==
    {VocabFile(a)} \cup {IdsFile(a, s) : s \in SplitSet}
                   \cup {LblFile(a, s) : s \in SplitSet}

\* open(path, 'wb') / np.save(path, ...): the file is created or replaced.
WriteFile(f, path, content) ==
    [p \in DOMAIN f \cup {path} |-> IF p = path THEN content ELSE f[p]]

\* CacheExists looking for a file name without the language.
CacheExistsNoLang(f, a) == (TmpDir(a) \o <<TRN \o "_ids.npy">>) \in DOMAIN f

\* (tmp_dir / f'{TRN}_{lang}_ids.npy').exists()  (line 66)
CacheExists(f, a) == IdsFile(a, TRN) \in DOMAIN f

-----------------------------------------------------------------------------
\* The arguments a run may be given, and the filesystem the runs start from.

ArgSpace ==
    [data_dir : {<<"data">>, <<"corpus">>, <<"gone", "data">>},
     lang : {"en", "de"},
     pretrain_name : {"wt-103"},
     model_dir : {<<"models">>, <<"nomodels">>},
     qrnn : {TRUE},
     fine_tune : BOOLEAN,
     max_vocab : 0..MaxVocab,
     name : {"imdb-clas"},
     dataset : {"imdb", "xnli", "sst"}]

NoArgs ==
    [data_dir |-> <<"data">>, lang |-> "en", pretrain_name |-> "wt-103",
     model_dir |-> <<"models">>, qrnn |-> TRUE, fine_tune |-> TRUE,
     max_vocab |-> 0, name |-> "imdb-clas", dataset |-> "imdb"]

InitDirs == {<<"data">>, <<"data", "xnli">>, <<"corpus">>, <<"models">>}

Pretrained == [fmt |-> "pretrained", data |-> 0]

InitFiles == [p \in PretrainedFiles(NoArgs) |-> Pretrained]

\* FailedAssert without the assertion of line 55.
FailedAssertNoDatasetDir(a, d) ==
    IF a.dataset \notin DATASETS THEN "dataset"
    ELSE IF ~((a.dataset = "imdb" /\ a.lang = "en") \/ ~(a.dataset = "imdb")) THEN "lang"
    ELSE IF PathName(a.data_dir) # "data" THEN "data_dir.name"
    ELSE IF a.data_dir \notin d THEN "data_dir"
    ELSE IF a.model_dir \notin d THEN "model_dir"
    ELSE ""

\* The first assertion of lines 45-56 that fails, "" when none does.
FailedAssert(a, d) ==
    IF a.dataset \notin DATASETS THEN "dataset"
    ELSE IF ~((a.dataset = "imdb" /\ a.lang = "en") \/ ~(a.dataset = "imdb")) THEN "lang"
    ELSE IF PathName(a.data_dir) # "data" THEN "data_dir.name"
    ELSE IF a.data_dir \notin d THEN "data_dir"
    ELSE IF DatasetDir(a) \notin d THEN "dataset_dir"
    ELSE IF a.model_dir \notin d THEN "model_dir"
    ELSE ""

-----------------------------------------------------------------------------
\* The framework's learners.

\* emb_sz, nh, nl = 400, 1550, 3  (lines 107, 109): nl recurrent layers
nl == 3

\* Layer groups of the classifier (rnn_classifier_split): the embedding, one
\* per recurrent layer, the head.  Of the language model (lm_split): one per
\* recurrent layer, the decoder.
ClasGroups == 1..(nl + 2)
LmGroups == 1..(nl + 1)

\* Learner.freeze_to(n) with n < 0: the last -n groups stay trainable;
\* Learner.unfreeze() is freeze_to(0): every group is trainable.
FreezeTo(groups, n) ==
    IF n = 0 THEN groups
    ELSE {g \in groups : g > Cardinality(groups) + n}

NoLearn == [kind |-> "none", trainable |-> {}, enc |-> [run |-> 0, nvocab |-> 0]]

\* An entry of trace: the call, its argument, and the learner it acted on.
Call(op, arg, l) == [op |-> op, arg |-> arg, trainable |-> l.trainable, enc |-> l.enc]

-----------------------------------------------------------------------------
\* Values of the locals before they are assigned.

NoSplits == [s \in SplitSet |-> <<>>]
NoIds == [s \in SplitSet |-> NpArray(<<>>)]
NoVocab == Vocab(<<>>)
NoBunch == [vocab |-> NoVocab, trn_ids |-> NpArray(<<>>), val_ids |-> NpArray(<<>>),
            trn_lbls |-> <<>>, val_lbls |-> <<>>]

Running == {"check", "mkdir", "read", "vocab", "save_ids", "save_lbl", "load",
            "load_vocab", "bunch", "lm", "finetune", "save_enc", "clas",
            "load_enc", "stage1", "stage2", "stage3", "save"}

\* The cache key of a run: cached files are named by dataset directory and language.
Key(a) == <<DatasetDir(a), a.lang>>

-----------------------------------------------------------------------------
\* The datasets the runs read.  A row of a split is a tokenized text x and its
\* class id y.  The reserved words UNK and PAD are strings like any other and
\* may occur in a text.

Words == {"a", "b"}
Tokens == Words \cup {UNK, PAD}
Labels == 0..MaxLabel

\* The token streams of at most n tokens.
Streams(n) == UNION {[1..k -> Tokens] : k \in 0..n}

\* A stream cut into texts after the positions in cuts.
RECURSIVE Chunks(_, _, _)
Chunks(stream, cuts, from) ==
    IF from > Len(stream) THEN <<>>
    ELSE LET end == CHOOSE c \in cuts \cup {Len(stream)} :
                        /\ c >= from
                        /\ \A d \in cuts \cup {Len(stream)} : d >= from => c <= d
         IN  <<SubSeq(stream, from, end)>> \o Chunks(stream, cuts, end + 1)

\* Rows of the given texts; the class ids cycle through Labels.
RowsOf(texts) == [i \in DOMAIN texts |-> [x |-> texts[i], y |-> i % (MaxLabel + 1)]]

\* Training splits of at most MaxTrnToks tokens in all, cut into texts in
\* every way.
TrnSplits ==
    {RowsOf(Chunks(stream, cuts, 1)) :
        <<stream, cuts>> \in
            UNION {{<<st, cu>> : cu \in SUBSET (1..(Len(st) - 1))} : st \in Streams(MaxTrnToks)}}

\* Validation splits: one row of one token, which may be a reserved word or a
\* word no training split has.
ValSplits ==
    {<<[x |-> <<t>>, y |-> MaxLabel]>> : t \in {"a", "c", UNK, PAD}}

\* Test splits: two rows, the second with a word no training split has.
TstSplits ==
    {<<[x |-> <<t, "a">>, y |-> 0], [x |-> <<"c">>, y |-> MaxLabel]>> : t \in {"b", UNK}}

MakeCorpus(trn, val, tst) == [s \in SplitSet |->
    IF s = TRN THEN trn ELSE IF s = VAL THEN val ELSE tst]

\* read_clas_data(dataset_dir, dataset, lang)  (line 68): toks and lbls, per
\* split, row by row.
ReadToks(c) == [s \in SplitSet |-> [i \in DOMAIN c[s] |-> c[s][i].x]]
ReadLbls(c) == [s \in SplitSet |-> [i \in DOMAIN c[s] |-> c[s][i].y]]

-----------------------------------------------------------------------------
\* The run.

Locals == <<args, split, toks, lbls, vocab, ids, bunch, learn>>
Ghosts == <<trace, nread, written, fs0, built>>
Disk == <<dirs, files>>

ClearLocals ==
    /\ args' = NoArgs
    /\ split' = 1
    /\ toks' = NoSplits
    /\ lbls' = NoSplits
    /\ vocab' = NoVocab
    /\ ids' = NoIds
    /\ bunch' = [lm |-> NoBunch, clas |-> NoBunch]
    /\ learn' = NoLearn

\* The run stops with an error; its locals are gone, the disk stays as it is.
Raise(e) ==
    /\ pc' = "aborted"
    /\ err' = e
    /\ ClearLocals

\* new_train_clas(...) is called  (line 19)
StartRun ==
    /\ pc \in {"idle", "done", "aborted"}
    /\ runs < MaxRuns
    /\ \E a \in ArgSpace : args' = a
    /\ runs' = runs + 1
    /\ pc' = "check"
    /\ err' = ""
    /\ UNCHANGED <<split, toks, lbls, vocab, ids, bunch, learn>>
    /\ trace' = <<>>
    /\ nread' = 0
    /\ written' = {}
    /\ fs0' = [dirs |-> dirs, files |-> files]
    /\ UNCHANGED <<corpus, dirs, files, built>>

\* The assertions of lines 45-56.
CheckArgs ==
    /\ pc = "check"
    /\ LET failed == FailedAssert(args, dirs)
       IN  IF failed = ""
           THEN pc' = "mkdir" /\ UNCHANGED <<err, Locals>>
           ELSE Raise("AssertionError")
    /\ UNCHANGED <<corpus, dirs, files, runs, Ghosts>>

\* tmp_dir.mkdir(exist_ok=True) and the test of line 66  (lines 62-66)
Mkdir ==
    /\ pc = "mkdir"
    /\ dirs' = dirs \cup {TmpDir(args)}
    /\ pc' = IF ~CacheExists(files, args) THEN "read" ELSE "load"
    /\ split' = 1
    /\ UNCHANGED <<corpus, files, runs, args, err, toks, lbls, vocab, ids,
                   bunch, learn, Ghosts>>

\* toks, lbls = read_clas_data(dataset_dir, dataset, lang)  (line 68)
ReadClasData ==
    /\ pc = "read"
    /\ toks' = ReadToks(corpus)
    /\ lbls' = ReadLbls(corpus)
    /\ nread' = nread + 1
    /\ pc' = "vocab"
    /\ UNCHANGED <<corpus, Disk, runs, args, err, split, vocab, ids, bunch,
                   learn, trace, written, fs0, built>>

\* The vocabulary is created and pickled  (lines 71-78)
CreateVocab ==
    /\ pc = "vocab"
    /\ vocab' = Vocab(MakeItos(toks, args.max_vocab))
    /\ files' = WriteFile(files, VocabFile(args), [fmt |-> "pkl", data |-> vocab'])
    /\ written' = written \cup {VocabFile(args)}
    /\ split' = 1
    /\ pc' = "save_ids"
    /\ UNCHANGED <<corpus, dirs, runs, args, err, toks, lbls, ids, bunch,
                   learn, trace, nread, fs0, built>>

\* ids[split] = np.array(...); np.save(..._ids.npy, ids[split])  (lines 82-84)
SaveIds ==
    /\ pc = "save_ids"
    /\ LET s == SplitOrder[split]
           a == NpArray(EncodeSplit(vocab.stoi, toks[s]))
       IN  /\ ids' = [ids EXCEPT ![s] = a]
           /\ files' = WriteFile(files, IdsFile(args, s), [fmt |-> "npy", data |-> a])
           /\ written' = written \cup {IdsFile(args, s)}
    /\ pc' = "save_lbl"
    /\ UNCHANGED <<corpus, dirs, runs, args, err, split, toks, lbls, vocab,
                   bunch, learn, trace, nread, fs0, built>>

\* np.save(..._lbl.npy, lbls[split]), and the next split  (lines 81, 85)
SaveLbl ==
    /\ pc = "save_lbl"
    /\ LET s == SplitOrder[split]
       IN  /\ files' = WriteFile(files, LblFile(args, s),
                                 [fmt |-> "npy", data |-> NpVector(lbls[s])])
           /\ written' = written \cup {LblFile(args, s)}
    /\ IF split < Len(SplitOrder)
       THEN /\ split' = split + 1
            /\ pc' = "save_ids"
            /\ built' = built
       ELSE /\ split' = split
            /\ pc' = "bunch"
            /\ built' = WriteFile(built, Key(args),
                    [run |-> runs, vocab |-> vocab, ids |-> ids, lbls |-> lbls])
    /\ UNCHANGED <<corpus, dirs, runs, args, err, toks, lbls, vocab, ids,
                   bunch, learn, trace, nread, fs0>>

\* ids[split] = np.load(..._ids.npy); lbls[split] = np.load(..._lbl.npy), and
\* the next split  (lines 89-91)
LoadSplit ==
    /\ pc = "load"
    /\ LET s == SplitOrder[split]
       IN  IF IdsFile(args, s) \in DOMAIN files /\ LblFile(args, s) \in DOMAIN files
           THEN /\ ids' = [ids EXCEPT ![s] = files[IdsFile(args, s)].data]
                /\ lbls' = [lbls EXCEPT ![s] = files[LblFile(args, s)].data.rows]
                /\ IF split < Len(SplitOrder)
                   THEN split' = split + 1 /\ pc' = "load"
                   ELSE split' = split /\ pc' = "load_vocab"
                /\ UNCHANGED <<err, args, toks, vocab, bunch, learn>>
           ELSE Raise("FileNotFoundError")
    /\ UNCHANGED <<corpus, Disk, runs, Ghosts>>

\* vocab = pickle.load(f)  (lines 92-93)
LoadVocab ==
    /\ pc = "load_vocab"
    /\ IF VocabFile(args) \in DOMAIN files
       THEN /\ vocab' = files[VocabFile(args)].data
            /\ pc' = "bunch"
            /\ UNCHANGED <<err, args, split, toks, lbls, ids, bunch, learn>>
       ELSE Raise("FileNotFoundError")
    /\ UNCHANGED <<corpus, Disk, runs, Ghosts>>

\* data_lm = TextLMDataBunch.from_ids(...); data_clas =
\* TextClasDataBunch.from_ids(...)  (lines 98-104)
DataBunches ==
    /\ pc = "bunch"
    /\ bunch' = [lm |-> [vocab |-> vocab, trn_ids |-> ids[TRN], val_ids |-> ids[VAL],
                         trn_lbls |-> <<>>, val_lbls |-> <<>>],
                 clas |-> [vocab |-> vocab, trn_ids |-> ids[TRN], val_ids |-> ids[VAL],
                           trn_lbls |-> lbls[TRN], val_lbls |-> lbls[VAL]]]
    /\ pc' = "lm"
    /\ UNCHANGED <<corpus, Disk, runs, args, err, split, toks, lbls, vocab, ids,
                   learn, Ghosts>>

\* learn = language_model_learner(data_lm, ..., pretrained_fnames=...)
\* (lines 110-114): the pretrained weights are loaded and the learner frozen.
LanguageModelLearner ==
    /\ pc = "lm"
    /\ IF PretrainedFiles(args) \subseteq DOMAIN files
       THEN /\ learn' = [kind |-> "lm", trainable |-> FreezeTo(LmGroups, -1),
                         enc |-> [run |-> 0, nvocab |-> Len(bunch.lm.vocab.itos)]]
            /\ trace' = Append(trace, Call("language_model_learner", 0, learn'))
            /\ pc' = IF args.fine_tune THEN "finetune" ELSE "clas"
            /\ UNCHANGED <<err, args, split, toks, lbls, vocab, ids, bunch>>
       ELSE Raise("FileNotFoundError") /\ UNCHANGED trace
    /\ UNCHANGED <<corpus, Disk, runs, nread, written, fs0, built>>

\* learn.unfreeze(); learn.fit(2, slice(1e-4, 1e-2))  (lines 118-119)
FineTune ==
    /\ pc = "finetune"
    /\ learn' = [learn EXCEPT !.trainable = FreezeTo(LmGroups, 0),
                              !.enc = [run |-> runs, nvocab |-> @.nvocab]]
    /\ trace' = Append(trace, Call("fit", 2, learn'))
    /\ pc' = "save_enc"
    /\ UNCHANGED <<corpus, Disk, runs, args, err, split, toks, lbls, vocab, ids,
                   bunch, nread, written, fs0, built>>

\* learn.save_encoder('enc')  (line 122)
SaveEncoder ==
    /\ pc = "save_enc"
    /\ files' = WriteFile(files, EncFile(args), [fmt |-> "pth", data |-> learn.enc])
    /\ written' = written \cup {EncFile(args)}
    /\ trace' = Append(trace, Call("save_encoder", 0, learn))
    /\ pc' = "clas"
    /\ UNCHANGED <<corpus, dirs, runs, err, Locals, nread, fs0, built>>

\* What the classifier's constructor leaves trainable.  text_classifier_learner
\* with this signature (emb_sz, nh, nl, qrnn) freezes nothing; the model allows
\* a constructor that freezes all but the head as well.
ClasCreated == {FreezeTo(ClasGroups, 0), FreezeTo(ClasGroups, -1)}

\* learn = text_classifier_learner(data_clas, ...)  (lines 124-126)
TextClassifierLearner ==
    /\ pc = "clas"
    /\ \E t \in ClasCreated :
          learn' = [kind |-> "clas", trainable |-> t,
                    enc |-> [run |-> 0, nvocab |-> Len(bunch.clas.vocab.itos)]]
    /\ trace' = Append(trace, Call("text_classifier_learner", 0, learn'))
    /\ pc' = "load_enc"
    /\ UNCHANGED <<corpus, Disk, runs, args, err, split, toks, lbls, vocab, ids,
                   bunch, nread, written, fs0, built>>

\* learn.load_encoder('enc')  (line 128): the weights of enc.pth replace the
\* encoder's; a missing file or an embedding of another size is an error.
LoadEncoder ==
    /\ pc = "load_enc"
    /\ IF EncFile(args) \notin DOMAIN files
       THEN Raise("FileNotFoundError") /\ UNCHANGED trace
       ELSE IF files[EncFile(args)].data.nvocab # learn.enc.nvocab
       THEN Raise("RuntimeError") /\ UNCHANGED trace
       ELSE /\ learn' = [learn EXCEPT !.enc = files[EncFile(args)].data]
            /\ trace' = Append(trace, Call("load_encoder", 0, learn'))
            /\ pc' = "stage1"
            /\ UNCHANGED <<err, args, split, toks, lbls, vocab, ids, bunch>>
    /\ UNCHANGED <<corpus, Disk, runs, nread, written, fs0, built>>

\* fit_one_cycle(learn, 1, 5e-3, (0.8, 0.7), wd=1e-7)  (line 129)
Stage1 ==
    /\ pc = "stage1"
    /\ trace' = Append(trace, Call("fit_one_cycle", 1, learn))
    /\ pc' = "stage2"
    /\ UNCHANGED <<corpus, Disk, runs, err, Locals, nread, written, fs0, built>>

\* learn.freeze_to(-2); fit_one_cycle(learn, 1, ...)  (lines 131-132)
Stage2 ==
    /\ pc = "stage2"
    /\ learn' = [learn EXCEPT !.trainable = FreezeTo(ClasGroups, -2)]
    /\ trace' = trace \o <<Call("freeze_to", -2, learn'), Call("fit_one_cycle", 1, learn')>>
    /\ pc' = "stage3"
    /\ UNCHANGED <<corpus, Disk, runs, args, err, split, toks, lbls, vocab, ids,
                   bunch, nread, written, fs0, built>>

\* learn.unfreeze(); fit_one_cycle(learn, 10, ...)  (lines 134-135)
Stage3 ==
    /\ pc = "stage3"
    /\ learn' = [learn EXCEPT !.trainable = FreezeTo(ClasGroups, 0)]
    /\ trace' = trace \o <<Call("unfreeze", 0, learn'), Call("fit_one_cycle", 10, learn')>>
    /\ pc' = "save"
    /\ UNCHANGED <<corpus, Disk, runs, args, err, split, toks, lbls, vocab, ids,
                   bunch, nread, written, fs0, built>>

\* learn.save(f'{model_name}_{name}')  (lines 137-138), the end of the run
Save ==
    /\ pc = "save"
    /\ files' = WriteFile(files, ClasFile(args), [fmt |-> "pth", data |-> learn.enc])
    /\ written' = written \cup {ClasFile(args)}
    /\ trace' = Append(trace, Call("save", 0, learn))
    /\ pc' = "done"
    /\ ClearLocals
    /\ UNCHANGED <<corpus, dirs, runs, err, nread, fs0, built>>

\* The run stops where it is: a framework call raises, or the process is killed.
Abort ==
    /\ pc \in Running
    /\ Raise("Killed")
    /\ UNCHANGED <<corpus, Disk, runs, Ghosts>>

-----------------------------------------------------------------------------
\* The specification of the runs: a fixed small dataset family, any arguments,
\* up to MaxRuns runs, each of which may abort anywhere.

RunCorpora ==
    {MakeCorpus(<<[x |-> <<"a">>, y |-> 0], [x |-> <<"b", "a">>, y |-> MaxLabel]>>,
                <<[x |-> <<"b">>, y |-> MaxLabel], [x |-> <<"c">>, y |-> 0]>>,
                <<[x |-> <<"a", "c">>, y |-> 0]>>),
     MakeCorpus(<<[x |-> <<UNK, "b">>, y |-> MaxLabel], [x |-> <<>>, y |-> 0],
                  [x |-> <<"b", "a">>, y |-> 0]>>,
                <<[x |-> <<PAD, "c">>, y |-> 0]>>,
                <<>>)}

Init ==
    /\ corpus \in RunCorpora
    /\ dirs = InitDirs
    /\ files = InitFiles
    /\ runs = 0
    /\ pc = "idle"
    /\ args = NoArgs
    /\ err = ""
    /\ split = 1
    /\ toks = NoSplits
    /\ lbls = NoSplits
    /\ vocab = NoVocab
    /\ ids = NoIds
    /\ bunch = [lm |-> NoBunch, clas |-> NoBunch]
    /\ learn = NoLearn
    /\ trace = <<>>
    /\ nread = 0
    /\ written = {}
    /\ fs0 = [dirs |-> InitDirs, files |-> InitFiles]
    /\ built = <<>>

Next ==
    \/ StartRun
    \/ CheckArgs
    \/ Mkdir
    \/ ReadClasData
    \/ CreateVocab
    \/ SaveIds
    \/ SaveLbl
    \/ LoadSplit
    \/ LoadVocab
    \/ DataBunches
    \/ LanguageModelLearner
    \/ FineTune
    \/ SaveEncoder
    \/ TextClassifierLearner
    \/ LoadEncoder
    \/ Stage1
    \/ Stage2
    \/ Stage3
    \/ Save
    \/ Abort

Spec == Init /\ [][Next]_vars

-----------------------------------------------------------------------------
\* The specification of the build branch: one run whose arguments passed the
\* assertions and whose cache is absent, over every training split of
\* TrnSplits and every max_vocab.

BuildArgs == {[NoArgs EXCEPT !.dataset = "xnli", !.max_vocab = m] : m \in 0..MaxVocab}

InitVocab ==
    /\ \E trn \in TrnSplits, val \in ValSplits, tst \in TstSplits :
          corpus = MakeCorpus(trn, val, tst)
    /\ args \in BuildArgs
    /\ dirs = InitDirs \cup {TmpDir(args)}
    /\ files = InitFiles
    /\ runs = 1
    /\ pc = "read"
    /\ err = ""
    /\ split = 1
    /\ toks = NoSplits
    /\ lbls = NoSplits
    /\ vocab = NoVocab
    /\ ids = NoIds
    /\ bunch = [lm |-> NoBunch, clas |-> NoBunch]
    /\ learn = NoLearn
    /\ trace = <<>>
    /\ nread = 0
    /\ written = {}
    /\ fs0 = [dirs |-> InitDirs, files |-> InitFiles]
    /\ built = <<>>

NextVocab ==
    \/ ReadClasData
    \/ CreateVocab
    \/ SaveIds
    \/ SaveLbl
    \/ DataBunches

SpecVocab == InitVocab /\ [][NextVocab]_vars

-----------------------------------------------------------------------------
\* Vocabulary used by the properties below.  Python's itos[k] is vocab.itos[k + 1]
\* here: sequences count from 1, token ids from 0.

\* The run has built (not loaded) its vocabulary.
VocabBuilt == pc \in Running /\ VocabFile(args) \in written

\* ids, lbls and vocab are complete: the run is past both branches.
AfterData == {"bunch", "lm", "finetune", "save_enc", "clas", "load_enc",
              "stage1", "stage2", "stage3", "save"}

\* data_lm and data_clas exist.
AfterBunch == AfterData \ {"bunch"}

\* The positions <<row, column>> of the training split, in reading order.
TrnPos == UNION {{<<i, j>> : j \in DOMAIN corpus[TRN][i].x} : i \in DOMAIN corpus[TRN]}
Before(p, q) == p[1] < q[1] \/ (p[1] = q[1] /\ p[2] < q[2])
TrnWord(p) == corpus[TRN][p[1]].x[p[2]]
TrnWords == {TrnWord(p) : p \in TrnPos}
TrnCount(w) == Cardinality({p \in TrnPos : TrnWord(p) = w})
FirstPos(w) ==
    CHOOSE p \in TrnPos : TrnWord(p) = w /\ \A q \in TrnPos : TrnWord(q) = w => ~Before(q, p)

\* u is more frequent than w in training, or as frequent and seen first.
Outranks(u, w) ==
    \/ TrnCount(u) > TrnCount(w)
    \/ TrnCount(u) = TrnCount(w) /\ Before(FirstPos(u), FirstPos(w))

\* The greatest position of w in a list.
LastIndex(list, w) ==
    CHOOSE i \in DOMAIN list : list[i] = w /\ \A j \in DOMAIN list : list[j] = w => j <= i

Smaller(m, n) == IF m <= n THEN m ELSE n

-----------------------------------------------------------------------------
\* C1: whenever new_train_clas builds the vocabulary, UNK has the reserved id 0
\* and PAD the reserved id 1 (itos[0] = UNK, itos[1] = PAD, stoi[UNK] = 0,
\* stoi[PAD] = 1), and every token taken from the training split has an id >= 2.
C1_ReservedIds ==
    VocabBuilt =>
        /\ vocab.itos[1] = UNK
        /\ vocab.itos[2] = PAD
        /\ vocab.stoi[UNK] = 0
        /\ vocab.stoi[PAD] = 1
        /\ \A i \in 3..Len(vocab.itos) : vocab.stoi[vocab.itos[i]] >= 2

\* C2: the vocabulary depends on the training split only (another validation
\* or test split gives the same itos, and every listed word beyond UNK and PAD
\* is a training word), a validation or test token that is not in the
\* vocabulary is encoded as the id of UNK, and one that is in it as its own id.
C2_TrainOnlyVocab ==
    VocabBuilt =>
        /\ \A val \in ValSplits :
              MakeItos(ReadToks(MakeCorpus(corpus[TRN], val, corpus[TST])),
                       args.max_vocab) = vocab.itos
        /\ \A tst \in TstSplits :
              MakeItos(ReadToks(MakeCorpus(corpus[TRN], corpus[VAL], tst)),
                       args.max_vocab) = vocab.itos
        /\ \A i \in 3..Len(vocab.itos) : vocab.itos[i] \in TrnWords
        /\ \A s \in {VAL, TST} : IdsFile(args, s) \in written =>
              /\ DOMAIN ids[s].rows = DOMAIN corpus[s]
              /\ \A i \in DOMAIN corpus[s] :
                    /\ DOMAIN ids[s].rows[i] = DOMAIN corpus[s][i].x
                    /\ \A j \in DOMAIN corpus[s][i].x :
                          LET w == corpus[s][i].x[j]
                              id == ids[s].rows[i][j]
                          IN  IF w \in Range(vocab.itos)
                              THEN id = vocab.stoi[w] /\ vocab.itos[id + 1] = w
                              ELSE id = vocab.stoi[UNK]

\* A validation token outside the vocabulary and a test token inside it have
\* been encoded.
C2_Witness ==
    /\ VocabBuilt /\ pc = "bunch"
    /\ corpus[VAL] # <<>>
    /\ corpus[VAL][1].x[1] \notin Range(vocab.itos)
    /\ ids[VAL].rows[1][1] = vocab.stoi[UNK]
    /\ corpus[TST][1].x[2] \in Range(vocab.itos)
    /\ ids[TST].rows[1][2] >= 2

\* C3: the vocabulary handed to the language-model and classifier data bunches
\* has at most max_vocab entries, built or loaded.
C3_AtMostMaxVocab ==
    (pc \in AfterBunch) =>
        /\ Len(bunch.lm.vocab.itos) <= args.max_vocab
        /\ Len(bunch.clas.vocab.itos) <= args.max_vocab

\* C4: once a run has completed the build branch for a dataset directory and
\* language, a later run with the same two never enters the build branch,
\* never calls read_clas_data, writes no cache file, and past the load branch
\* holds the vocabulary, ids and labels the building run saved.
C4_CacheRoundTrip ==
    (pc \in Running /\ Key(args) \in DOMAIN built /\ built[Key(args)].run < runs) =>
        /\ pc \notin {"read", "vocab", "save_ids", "save_lbl"}
        /\ nread = 0
        /\ written \cap CacheFiles(args) = {}
        /\ pc \in AfterData =>
              /\ vocab = built[Key(args)].vocab
              /\ ids = built[Key(args)].ids
              /\ lbls = built[Key(args)].lbls

\* A later run has loaded a cache built with a larger max_vocab than its own.
C4_Witness ==
    /\ pc = "lm" /\ nread = 0
    /\ Key(args) \in DOMAIN built /\ built[Key(args)].run < runs
    /\ args.max_vocab < Len(vocab.itos) - 2
    /\ Len(ids[TRN].rows) >= 2

\* C5: a run whose arguments fail an assertion of lines 45-56 aborts with the
\* directories and files as they were when it started, nothing read, nothing
\* written and no training call made; a run whose arguments pass them all is
\* not aborted by an assertion.
C5_ChecksAbortCleanly ==
    [][pc = "check" =>
        IF /\ args.dataset \in DATASETS
           /\ (args.dataset = "imdb" => args.lang = "en")
           /\ PathName(args.data_dir) = "data"
           /\ args.data_dir \in dirs
           /\ (args.data_dir \o <<args.dataset>>) \in dirs
           /\ args.model_dir \in dirs
        THEN ~(pc' = "aborted" /\ err' = "AssertionError")
        ELSE /\ pc' = "aborted"
             /\ dirs' = fs0.dirs /\ files' = fs0.files
             /\ nread' = 0 /\ written' = {} /\ trace' = <<>>]_vars

\* A run was aborted by an assertion while an earlier run's cache was on disk.
C5_Witness ==
    /\ pc = "aborted" /\ err = "AssertionError"
    /\ DOMAIN files # DOMAIN InitFiles
    /\ dirs = fs0.dirs /\ files = fs0.files

\* C6: in every run that reaches training the language model is fine-tuned and
\* its encoder saved before the classifier is created, the encoder that
\* load_encoder loads was saved by save_encoder in the same run, and the
\* classifier weights are saved after that.
C6_EncoderOfThisRun ==
    \A i \in DOMAIN trace :
        /\ trace[i].op = "text_classifier_learner" =>
              \E j, k \in 1..(i - 1) :
                  j < k /\ trace[j].op = "fit" /\ trace[k].op = "save_encoder"
        /\ trace[i].op = "load_encoder" =>
              /\ trace[i].enc.run = runs
              /\ \E k \in 1..(i - 1) : trace[k].op = "save_encoder"
        /\ trace[i].op = "save" =>
              \E k \in 1..(i - 1) : trace[k].op = "load_encoder"

\* The classifier's calls of a trace: those from text_classifier_learner on.
ClasCalls ==
    LET from == CHOOSE i \in DOMAIN trace : trace[i].op = "text_classifier_learner"
    IN  SubSeq(trace, from, Len(trace))

\* C7: in the build and in the load branch, every split has as many id
\* sequences as labels and as rows, the i-th label is the i-th row's, the i-th
\* id sequence encodes the i-th row's text token by token, and the classifier
\* data bunch pairs the ids with the labels of the same split.
C7_LabelsAligned ==
    /\ pc \in AfterData =>
          \A s \in SplitSet :
              /\ Len(ids[s].rows) = Len(lbls[s])
              /\ Len(lbls[s]) = Len(corpus[s])
              /\ \A i \in DOMAIN corpus[s] :
                    /\ lbls[s][i] = corpus[s][i].y
                    /\ Len(ids[s].rows[i]) = Len(corpus[s][i].x)
                    /\ \A j \in DOMAIN corpus[s][i].x :
                          LET w == corpus[s][i].x[j]
                              id == ids[s].rows[i][j]
                          IN  /\ id + 1 \in DOMAIN vocab.itos
                              /\ vocab.itos[id + 1] =
                                     IF w \in Range(vocab.itos) THEN w ELSE UNK
    /\ pc \in AfterBunch =>
          /\ bunch.clas.trn_ids = ids[TRN] /\ bunch.clas.trn_lbls = lbls[TRN]
          /\ bunch.clas.val_ids = ids[VAL] /\ bunch.clas.val_lbls = lbls[VAL]
          /\ bunch.lm.trn_ids = ids[TRN] /\ bunch.lm.val_ids = ids[VAL]

\* The load branch has handed over a training split of rows with different
\* labels and a validation split with a word outside the vocabulary.
C7_Witness ==
    /\ pc = "lm" /\ nread = 0
    /\ Len(bunch.clas.trn_lbls) >= 2
    /\ bunch.clas.trn_lbls[1] # bunch.clas.trn_lbls[2]
    /\ \E i \in DOMAIN corpus[VAL] : \E j \in DOMAIN corpus[VAL][i].x :
          corpus[VAL][i].x[j] \notin Range(vocab.itos)

\* C8: the itos list is a function of the training tokens, their order and
\* max_vocab alone: after UNK and PAD it holds the min(max_vocab, number of
\* distinct training words) words of highest training count, by falling count,
\* words of equal count (at the cut-off too) in the order of their first
\* occurrence; and every saved id is the one that list gives.  Two builds on
\* the same input therefore agree position by position.
C8_VocabDetermined ==
    VocabBuilt =>
        LET n == Len(vocab.itos) - 2
            W(i) == vocab.itos[i + 2]
        IN  /\ vocab.itos[1] = UNK /\ vocab.itos[2] = PAD
            /\ n = Smaller(args.max_vocab, Cardinality(TrnWords))
            /\ \A i \in 1..n : W(i) \in TrnWords
            /\ \A i, j \in 1..n : i < j => Outranks(W(i), W(j))
            /\ \A u \in TrnWords :
                  (\A i \in 1..n : W(i) # u) => \A i \in 1..n : Outranks(W(i), u)
            /\ \A s \in SplitSet : IdsFile(args, s) \in written =>
                  ids[s].rows =
                      [i \in DOMAIN corpus[s] |-> [j \in DOMAIN corpus[s][i].x |->
                          LET w == corpus[s][i].x[j]
                          IN  IF \E k \in DOMAIN vocab.itos : vocab.itos[k] = w
                              THEN LastIndex(vocab.itos, w) - 1
                              ELSE LastIndex(vocab.itos, UNK) - 1]]

\* Two training words of equal count met the cut-off: one is in the
\* vocabulary, the other is not, and the splits are encoded.
C8_Witness ==
    /\ VocabBuilt /\ pc = "bunch"
    /\ \E u, w \in TrnWords :
          /\ u # w /\ TrnCount(u) = TrnCount(w)
          /\ u \in Range(SubSeq(vocab.itos, 3, Len(vocab.itos)))
          /\ w \notin Range(SubSeq(vocab.itos, 3, Len(vocab.itos)))
          /\ w \notin {UNK, PAD}

C10_CacheComplete ==
    /\ pc \in {"idle", "done", "aborted"} =>
          \A a \in ArgSpace : CacheExists(files, a) => CacheFiles(a) \subseteq DOMAIN files
    /\ pc = "load" =>
          /\ IdsFile(args, SplitOrder[split]) \in DOMAIN files
          /\ LblFile(args, SplitOrder[split]) \in DOMAIN files
    /\ pc = "load_vocab" => VocabFile(args) \in DOMAIN files

====
